---------------------------- MODULE Spec2Model ----------------------------
(***************************************************************************)
(* A model of ipc.Process (src/ipc.py): a Controller that owns a child     *)
(* process, two queues, a supervising thread (run), a writer thread and    *)
(* two reader threads per spawned child, driven by caller threads.         *)
(*                                                                         *)
(* Every read or write of a shared attribute of the Process object         *)
(* (proc, running, thread, input, output) is a step of its own, as the     *)
(* interpreter may switch threads between any two byte codes.  Two         *)
(* neighbouring accesses are one step only where every interleaving        *)
(* between them leads to a state the merged step also reaches.             *)
(***************************************************************************)
EXTENDS Integers, Sequences, FiniteSets, TLC

\* ------------------------------------------------------------- bounds
MaxGen    == 2      \* children spawned (Popen calls) in one behaviour
MaxOps    == 2      \* lifecycle calls made by the main caller
MaxEvents == 2      \* what the environment does in one behaviour, together:
                    \* write() calls, lines the children print, kill() calls
                    \* of the second caller thread, children ignoring SIGTERM
MaxArgs   == 2      \* keyword arguments of a Message
MaxItems  == 1      \* elements of a list or tuple among the arguments
MaxStarts == 2      \* Interface: start() calls that launch loops
MaxAppOps == 3      \* Interface: start() / stop() calls after construction
MaxIO     == 3      \* Interface: lines fed to the readers, write() calls and
                    \* failing stream writes, together

Gens     == 1..MaxGen
None     == 0
Channels == {"out", "err"}
Callers  == {"main", "aux"}
\* a message's name has an on_msg_<name> handler ("ok") or has none ("unk");
\* only the handler lookup reads the name, so the name is drawn there
Kinds    == {"ok", "unk"}
\* the two versions of the library in the repository: the module src/ipc.py
\* (1.1.2, the one setup.py installs) and the package src/ipc/ (1.1.0)
Versions == {"module", "package"}

VARIABLES
    version,   \* which of the two versions of the library runs
    proc,      \* Process.proc: None or the spawned generation
    running,   \* Process.running
    thread,    \* Process.thread: None or the Thread object of run() of a generation
    input,     \* Process.input: queue of messages to the child
    output,    \* Process.output: queue of messages from the child
    child,     \* the OS processes: child[g]
    run,       \* the supervising threads: run[g]
    wr,        \* the writer threads: wr[g]
    rd,        \* the reader threads: rd[g][ch]
    cs,        \* the caller threads: cs[c]
    gens,      \* number of children spawned so far
    epoch,     \* number of queue replacements so far
    nwrites,   \* number of write() calls so far
    nemit,     \* number of lines emitted so far
    calls,     \* calls[c]: lifecycle calls made so far by caller c
    reqd,      \* history: generations on which stop/terminate/kill was called
    disp,      \* history: disp[g][ch], the number of the line dispatched last
    hooks,     \* history: hooks[g], the terminal hooks run(g) invoked, in order
    mobj,      \* Message: the Message object under conversion
    mchan,     \* Message: the channel argument of Message.parse
    mline,     \* Message: a line of text, as its sequence of tokens
    mres,      \* Message: what Message.parse returned or raised
    mpc,       \* Message: the conversion's position
    irunning,  \* Interface.running
    iqueue,    \* Interface.stdin, .stdout, .stderr: the three queues
    ithread,   \* Interface.stdin_thread, .stdout_thread, .stderr_thread
    on_stdin_error,  \* Interface.on_stdin_error: none, or what the callback does
    ird,       \* the Interface.reader threads: ird[k]
    iwr,       \* the Interface.writer threads: iwr[k][s]
    sysio,     \* sys.stdin, sys.stdout, sys.stderr of the peer process
    app,       \* the application thread that uses the Interface
    prdr,      \* a Process._reader thread with its stream and its output queue
    io         \* counters of the Interface's environment

pvars == <<proc, running, thread, input, output, child, run, wr, rd, cs,
           gens, epoch, nwrites, nemit, calls, reqd, disp, hooks>>
mvars == <<mobj, mchan, mline, mres, mpc>>
ivars == <<irunning, iqueue, ithread, on_stdin_error, ird, iwr, sysio, app, prdr, io>>

vars == <<version, pvars, mvars, ivars>>
\* what no method of Process changes
ext    == <<version, mvars, ivars>>

ctl    == <<proc, running, thread>>
queues == <<input, output>>
count  == <<gens, epoch, nwrites, nemit>>
hist   == <<reqd, disp, hooks>>

\* ------------------------------------------------------------- helpers

\* subprocess.Popen.poll() is None
PollIsNone(g) == child[g].alive

\* an is_alive that does not poll the child
is_alive_NoPoll == proc # None

\* Process.is_alive
is_alive == proc # None /\ PollIsNone(proc)

\* a thread object is still executing (Thread.join would block)
ThreadLive(g) == run[g].pc \notin {"none", "done", "dead"}

\* the OS delivers SIGTERM: a child that ignores it stays alive
SigTerm(c) == IF c.alive /\ ~c.ign THEN [c EXCEPT !.alive = FALSE, !.sig = "TERM"] ELSE c

\* the OS delivers SIGKILL, which cannot be ignored
SigKill(c) == IF c.alive THEN [c EXCEPT !.alive = FALSE, !.sig = "KILL"] ELSE c

InitChild == [alive |-> FALSE, ign |-> FALSE, ep |-> 0,
              out |-> <<>>, err |-> <<>>, stdin |-> <<>>, closed |-> FALSE,
              own |-> FALSE, sig |-> "none", termed |-> FALSE]

\* ------------------------------------------------------------- Message

\* A text (a str, a line of a stream) is the sequence of its tokens; a token
\* has a kind k (punct, str, num, word, ws, raw) and its characters s.
Token(k, s) == [k |-> k, s |-> s]
Punct(s) == Token("punct", s)
NL == Token("ws", "\n")
SP == Token("ws", " ")

\* A Python value: its type t and, by type, its literal (int, str, bool,
\* NoneType), its items (list, tuple), its key/value pairs in insertion order
\* (dict) or its characters (a str holding a whole line).
Value(t, lit, items, pairs, text) ==
    [t |-> t, lit |-> lit, items |-> items, pairs |-> pairs, text |-> text]
Scalar(t, lit) == Value(t, lit, <<>>, <<>>, <<>>)
PyInt(lit) == Scalar("int", lit)
PyStr(lit) == Scalar("str", lit)
PyNone == Scalar("NoneType", "null")
PyList(items) == Value("list", "", items, <<>>, <<>>)
PyDict(pairs) == Value("dict", "", <<>>, pairs, <<>>)
PyText(text) == Value("str", "", <<>>, <<>>, text)
Pair(key, val) == [key |-> key, val |-> val]

\* dict lookups
Keys(pairs) == {pairs[i].key : i \in 1..Len(pairs)}
Get(pairs, key) == pairs[CHOOSE i \in 1..Len(pairs) : pairs[i].key = key].val
\* d[key] = val: a new key is appended, an old one keeps its place
SetItem(pairs, key, val) ==
    IF key \in Keys(pairs)
    THEN [i \in 1..Len(pairs) |-> IF pairs[i].key = key THEN Pair(key, val) ELSE pairs[i]]
    ELSE Append(pairs, Pair(key, val))

\* dict.__eq__: the same keys with equal values, in any order
DictEq(a, b) == {a[i] : i \in 1..Len(a)} = {b[i] : i \in 1..Len(b)}

\* json.dumps: a tuple is written as an array, like a list; items and
\* members are separated by ", ", keys and values by ": "
RECURSIVE JsonEncode(_), EncodeItems(_), EncodePairs(_)
JsonEncode(v) ==
    CASE v.t = "int" -> <<Token("num", v.lit)>>
      [] v.t = "str" -> <<Token("str", v.lit)>>
      [] v.t \in {"bool", "NoneType"} -> <<Token("word", v.lit)>>
      [] v.t \in {"list", "tuple"} -> <<Punct("[")>> \o EncodeItems(v.items) \o <<Punct("]")>>
      [] v.t = "dict" -> <<Punct("{")>> \o EncodePairs(v.pairs) \o <<Punct("}")>>
EncodeItems(items) ==
    IF items = <<>> THEN <<>>
    ELSE JsonEncode(Head(items)) \o
         (IF Len(items) = 1 THEN <<>> ELSE <<Punct(","), SP>> \o EncodeItems(Tail(items)))
EncodePairs(pairs) ==
    IF pairs = <<>> THEN <<>>
    ELSE <<Token("str", Head(pairs).key), Punct(":"), SP>> \o JsonEncode(Head(pairs).val) \o
         (IF Len(pairs) = 1 THEN <<>> ELSE <<Punct(","), SP>> \o EncodePairs(Tail(pairs)))

\* json.loads, the scanner: white space between tokens is skipped
IsToken(t) == t.k # "ws"
Scan(text) == SelectSeq(text, IsToken)

\* the token at position i, or an end marker
At(toks, i) == IF i <= Len(toks) THEN toks[i] ELSE Token("end", "")

\* the result of parsing one value: ok, the value, the next position
Parsed(val, i) == [ok |-> TRUE, val |-> val, i |-> i]
NotParsed == [ok |-> FALSE, val |-> PyNone, i |-> 0]

\* an array turned into a tuple
FromArrayAsTuple(items) == Value("tuple", "", items, <<>>, <<>>)

\* an array becomes a list
FromArray(items) == PyList(items)

\* json.loads, the parser: one value at position i of the tokens
RECURSIVE ParseValue(_, _), ParseItems(_, _, _), ParsePairs(_, _, _)
ParseValue(toks, i) ==
    LET t == At(toks, i) IN
    CASE t.k = "num" -> Parsed(PyInt(t.s), i + 1)
      [] t.k = "str" -> Parsed(PyStr(t.s), i + 1)
      [] t.k = "word" /\ t.s \in {"true", "false"} -> Parsed(Scalar("bool", t.s), i + 1)
      [] t.k = "word" /\ t.s = "null" -> Parsed(PyNone, i + 1)
      [] t = Punct("[") ->
           IF At(toks, i + 1) = Punct("]") THEN Parsed(FromArray(<<>>), i + 2)
           ELSE ParseItems(toks, i + 1, <<>>)
      [] t = Punct("{") ->
           IF At(toks, i + 1) = Punct("}") THEN Parsed(PyDict(<<>>), i + 2)
           ELSE ParsePairs(toks, i + 1, <<>>)
      [] OTHER -> NotParsed
ParseItems(toks, i, acc) ==
    LET r == ParseValue(toks, i) IN
    IF ~r.ok THEN NotParsed
    ELSE IF At(toks, r.i) = Punct(",") THEN ParseItems(toks, r.i + 1, Append(acc, r.val))
    ELSE IF At(toks, r.i) = Punct("]") THEN Parsed(FromArray(Append(acc, r.val)), r.i + 1)
    ELSE NotParsed
ParsePairs(toks, i, acc) ==
    IF At(toks, i).k # "str" \/ At(toks, i + 1) # Punct(":") THEN NotParsed
    ELSE LET r == ParseValue(toks, i + 2) IN
         IF ~r.ok THEN NotParsed
         ELSE IF At(toks, r.i) = Punct(",")
              THEN ParsePairs(toks, r.i + 1, SetItem(acc, At(toks, i).s, r.val))
         ELSE IF At(toks, r.i) = Punct("}")
              THEN Parsed(PyDict(SetItem(acc, At(toks, i).s, r.val)), r.i + 1)
         ELSE NotParsed

\* json.loads: the whole text is one value, else ValueError (ok is FALSE)
Loads(text) ==
    LET r == ParseValue(Scan(text), 1) IN
    IF r.ok /\ r.i = Len(Scan(text)) + 1 THEN r ELSE NotParsed

\* a Message object (lines 73-76), and a call that raised instead
Message(name, channel, args) ==
    [tag |-> "Message", name |-> name, channel |-> channel, args |-> args, exc |-> ""]
Raised(exc) ==
    [tag |-> "raised", name |-> PyNone, channel |-> "", args |-> <<>>, exc |-> exc]
\* the value of mobj and mres when there is none
NoMessage ==
    [tag |-> "none", name |-> PyNone, channel |-> "", args |-> <<>>, exc |-> ""]

\* lines 78-79: Message.dumps
dumps(m) == JsonEncode(PyDict(<<Pair("name", m.name), Pair("args", PyDict(m.args))>>))

\* line 82: what Message.write writes, '{}\n'.format(self.dumps())
MessageLine(m) == dumps(m) \o <<NL>>

\* lines 85-86: Message.__eq__
MessageEq(a, b) == a.name = b.name /\ DictEq(a.args, b.args)

\* the parameter names of Message.__init__, which ** cannot pass again
InitParams == {"self", "name", "channel"}

\* line 100: cls(data['name'], channel, **data['args'])
FromData(data, channel) ==
    IF data.t # "dict" THEN Raised("TypeError")
    ELSE IF "name" \notin Keys(data.pairs) THEN Raised("KeyError")
    ELSE IF "args" \notin Keys(data.pairs) THEN Raised("KeyError")
    ELSE IF Get(data.pairs, "args").t # "dict" THEN Raised("TypeError")
    ELSE IF Keys(Get(data.pairs, "args").pairs) \cap InitParams # {} THEN Raised("TypeError")
    ELSE Message(Get(data.pairs, "name"), channel, Get(data.pairs, "args").pairs)

\* lines 91-100: Message.parse
MessageParse(text, channel) ==
    IF ~Loads(text).ok
    THEN IF text # <<>>
         THEN Message(PyStr("jsonerr"), channel, <<Pair("msg", PyText(text))>>)
         ELSE Raised("ValueError")
    ELSE FromData(Loads(text).val, channel)

\* ------------------------------------------------------------- Process

\* Process.__init__
ProcessInit ==
    /\ proc = None
    /\ running = FALSE
    /\ thread = None
    /\ input = <<>>
    /\ output = <<>>
    /\ child = [g \in Gens |-> InitChild]
    /\ run = [g \in Gens |-> [pc |-> "none", term |-> FALSE]]
    /\ wr = [g \in Gens |-> [pc |-> "none", msg |-> <<>>]]
    /\ rd = [g \in Gens |-> [ch \in Channels |-> "none"]]
    /\ cs = [c \in Callers |-> [op |-> "none", pc |-> "idle", jt |-> None, res |-> "ok"]]
    /\ gens = 0
    /\ epoch = 0
    /\ nwrites = 0
    /\ nemit = 0
    /\ calls = [c \in Callers |-> 0]
    /\ reqd = {}
    /\ disp = [g \in Gens |-> [ch \in Channels |-> 0]]
    /\ hooks = [g \in Gens |-> <<>>]

\* no conversion of a Message is under way
MessageIdle ==
    /\ mobj = NoMessage
    /\ mchan = ""
    /\ mline = <<>>
    /\ mres = NoMessage
    /\ mpc = "idle"

\* the streams an Interface writes, and its three queues and threads
Streams == {"stdout", "stderr"}
Std == {"stdin"} \cup Streams
Starts == 1..MaxStarts

\* the program a behaviour of the input/output specification follows: the
\* peer, which owns an Interface, or the Controller, of which it follows one
\* _reader thread
Programs == {"Interface", "Process"}

\* lines 241-252: Interface.__init__ up to its call of start(), given the
\* on_stdin_error argument; and a Process._reader about to read its stream
InterfaceNew(cb, program) ==
    /\ on_stdin_error = cb
    /\ irunning = FALSE
    /\ iqueue = [x \in Std |-> <<>>]
    /\ ithread = [x \in Std |-> None]
    /\ ird = [k \in Starts |-> [pc |-> "none", last |-> <<>>]]
    /\ iwr = [k \in Starts |-> [s \in Streams |-> [pc |-> "none", msg |-> <<>>]]]
    /\ sysio = [stdin |-> 0, eof |-> FALSE, stdout |-> <<>>, stderr |-> <<>>]
    /\ app = [pc |-> "new", log |-> <<>>]
    /\ prdr = [pc |-> "run", stream |-> 0, eof |-> FALSE, output |-> <<>>, last |-> <<>>]
    /\ io = [program |-> program, fed |-> 0, writes |-> 0, faults |-> 0,
             starts |-> 0, errors |-> 0, exits |-> 0]

Init ==
    /\ version \in Versions
    /\ ProcessInit
    /\ MessageIdle
    /\ InterfaceNew("none", "Process")

\* the environment's events so far
Used == nwrites + nemit + calls["aux"] + Cardinality({g \in Gens : child[g].ign})

\* ------------------------------------------------------------- callers

\* the operations each caller thread uses; the second thread is a watchdog
\* that only kills, and only while the main caller is blocked in a join
Ops(c) == IF c = "main" THEN {"start", "stop", "reset", "terminate", "kill"}
          ELSE IF cs["main"].pc \in {"stjoin", "kjoin"} THEN {"kill"} ELSE {}

MaxCalls(c) == IF c = "main" THEN MaxOps ELSE calls[c] + MaxEvents - Used

\* caller c calls method o now (from the application)
Calls(c, o) ==
    /\ cs[c].pc = "idle"
    /\ o \in Ops(c)
    /\ calls[c] < MaxCalls(c)
    /\ o \in {"start", "reset"} => gens < MaxGen

\* caller c is at the first statement of a method: it calls o now, or it is
\* inside reset() at label l, where reset calls the method
Enters(c, o, l) == Calls(c, o) \/ (cs[c].op = "reset" /\ cs[c].pc = l)

\* the method caller c is in after a step taken under Enters(c, o, l)
Op(c, o) == IF cs[c].pc = "idle" THEN o ELSE cs[c].op

Counted(c) == calls' = IF cs[c].pc = "idle" THEN [calls EXCEPT ![c] = @ + 1] ELSE calls

\* a call returns to the application (normally, or by raising)
Ret(c, r) == cs' = [cs EXCEPT ![c] = [op |-> "none", pc |-> "idle", jt |-> None, res |-> r]]

Goto(c, o, l) == cs' = [cs EXCEPT ![c].op = o, ![c].pc = l]

\* stop() returns: to the application, or to reset() at line 135
StopRet(c, o) == IF o = "reset" THEN Goto(c, o, "k152") ELSE Ret(c, "ok")

\* terminate() / kill() returns: to the application, or to reset() at line 136
KillRet(c, o) == IF o = "reset"
                 THEN cs' = [cs EXCEPT ![c].op = o, ![c].pc = "r136", ![c].jt = None]
                 ELSE Ret(c, "ok")

\* a start() that tests the running flag instead of the thread
AlreadyStartedByFlag == running

\* line 118: if self.thread
AlreadyStarted == thread # None

\* whether a spawned child may ignore SIGTERM
Ignoring == IF Used < MaxEvents THEN BOOLEAN ELSE {FALSE}

\* the child Popen spawns: alive, all pipes open, nothing written or read
Popen(i) == [InitChild EXCEPT !.alive = TRUE, !.ign = i, !.ep = epoch]

\* lines 118-123 and the thread start of line 124: raise, or Popen,
\* running = True and detach(self.run), whose thread at once detaches the
\* writer and both readers and calls on_started (lines 204-207)
Start118(c) ==
    /\ UNCHANGED ext
    /\ Enters(c, "start", "s118")
    /\ IF AlreadyStarted
       THEN /\ Ret(c, "AlreadyStarted")
            /\ UNCHANGED <<ctl, child, run, wr, rd, gens>>
       ELSE /\ gens < MaxGen
            /\ gens' = gens + 1
            /\ \E i \in Ignoring : child' = [child EXCEPT ![gens'] = Popen(i)]
            /\ proc' = gens'
            /\ running' = TRUE
            /\ run' = [run EXCEPT ![gens'].pc = "l209"]
            /\ wr' = [wr EXCEPT ![gens'].pc = "w183"]
            /\ rd' = [rd EXCEPT ![gens'] = [ch \in Channels |-> "run"]]
            /\ cs' = [cs EXCEPT ![c] = [op |-> Op(c, "start"), pc |-> "s124",
                                        jt |-> gens', res |-> @.res]]
            /\ UNCHANGED thread
    /\ Counted(c)
    /\ UNCHANGED <<queues, epoch, nwrites, nemit, hist>>

\* line 124: self.thread = <the thread detach returned>
Start124(c) ==
    /\ UNCHANGED ext
    /\ cs[c].pc = "s124"
    /\ thread' = cs[c].jt
    /\ Ret(c, "ok")
    /\ UNCHANGED <<proc, running, queues, child, run, wr, rd, count, calls, hist>>

\* history: stop / terminate / kill is called on the current generation
Requested == IF proc = None THEN reqd ELSE reqd \cup {proc}

\* lines 127-129: if not self.thread: return; self.running = False
Stop127(c) ==
    /\ UNCHANGED ext
    /\ Enters(c, "stop", "st127")
    /\ IF thread = None
       THEN /\ StopRet(c, Op(c, "stop"))
            /\ UNCHANGED running
       ELSE /\ running' = FALSE
            /\ Goto(c, Op(c, "stop"), "st130")
    /\ reqd' = Requested
    /\ Counted(c)
    /\ UNCHANGED <<proc, thread, queues, child, run, wr, rd, count, disp, hooks>>

\* lines 130, 149, 160: evaluate self.thread for self.thread.join();
\* None has no join attribute
JoinRead(c, l) ==
    IF thread = None
    THEN Ret(c, "AttributeError")
    ELSE cs' = [cs EXCEPT ![c].pc = l, ![c].jt = thread]

Stop130(c) ==
    /\ UNCHANGED ext
    /\ cs[c].pc = "st130"
    /\ JoinRead(c, "stjoin")
    /\ UNCHANGED <<ctl, queues, child, run, wr, rd, count, calls, hist>>

\* line 130: Thread.join() returns when the thread has ended
StopJoin(c) ==
    /\ UNCHANGED ext
    /\ cs[c].pc = "stjoin"
    /\ ~ThreadLive(cs[c].jt)
    /\ StopRet(c, cs[c].op)
    /\ UNCHANGED <<ctl, queues, child, run, wr, rd, count, calls, hist>>

\* lines 133-134: if self.is_alive(): self.stop()
Reset133(c) ==
    /\ UNCHANGED ext
    /\ Calls(c, "reset")
    /\ IF is_alive THEN Goto(c, "reset", "st127") ELSE Goto(c, "reset", "k152")
    /\ Counted(c)
    /\ UNCHANGED <<ctl, queues, child, run, wr, rd, count, hist>>

\* lines 136-137: both queues are replaced by new, empty ones
Reset136(c) ==
    /\ UNCHANGED ext
    /\ cs[c].pc = "r136"
    /\ input' = <<>>
    /\ output' = <<>>
    /\ epoch' = epoch + 1
    /\ Goto(c, "reset", "s118")
    /\ UNCHANGED <<ctl, child, run, wr, rd, gens, nwrites, nemit, calls, hist>>

\* lines 141-146: terminate() returns if the child is not alive, else
\* sends SIGTERM
Terminate141(c) ==
    /\ UNCHANGED ext
    /\ Calls(c, "terminate")
    /\ IF is_alive
       THEN /\ child' = [child EXCEPT ![proc] = [SigTerm(@) EXCEPT !.termed = TRUE]]
            /\ Goto(c, "terminate", "k158")
       ELSE /\ Ret(c, "ok")
            /\ UNCHANGED child
    /\ reqd' = Requested
    /\ Counted(c)
    /\ UNCHANGED <<ctl, queues, run, wr, rd, count, disp, hooks>>

\* lines 152-157: kill() returns if the child is not alive, else sends SIGKILL
Kill152(c) ==
    /\ UNCHANGED ext
    /\ Enters(c, "kill", "k152")
    /\ IF is_alive
       THEN /\ child' = [child EXCEPT ![proc] = SigKill(@)]
            /\ Goto(c, Op(c, "kill"), "k158")
       ELSE /\ KillRet(c, Op(c, "kill"))
            /\ UNCHANGED child
    /\ reqd' = Requested
    /\ Counted(c)
    /\ UNCHANGED <<ctl, queues, run, wr, rd, count, disp, hooks>>

\* lines 147-148 and 158-159: self.running = False; if self.thread
Sig158(c) ==
    /\ UNCHANGED ext
    /\ cs[c].pc = "k158"
    /\ running' = FALSE
    /\ IF thread = None THEN KillRet(c, cs[c].op) ELSE Goto(c, cs[c].op, "k160")
    /\ UNCHANGED <<proc, thread, queues, child, run, wr, rd, count, calls, hist>>

\* lines 149 and 160: self.thread.join()
Sig160(c) ==
    /\ UNCHANGED ext
    /\ cs[c].pc = "k160"
    /\ JoinRead(c, "kjoin")
    /\ UNCHANGED <<ctl, queues, child, run, wr, rd, count, calls, hist>>

SigJoin(c) ==
    /\ UNCHANGED ext
    /\ cs[c].pc = "kjoin"
    /\ ~ThreadLive(cs[c].jt)
    /\ KillRet(c, cs[c].op)
    /\ UNCHANGED <<ctl, queues, child, run, wr, rd, count, calls, hist>>

\* the message write() builds: its number and the queue generation it joins
NewMessage == [n |-> nwrites + 1, ep |-> epoch]

\* lines 168-169: write() puts one message on the input queue
Write(c) ==
    /\ UNCHANGED ext
    /\ c = "main"
    /\ cs[c].pc = "idle"
    /\ Used < MaxEvents
    /\ nwrites' = nwrites + 1
    /\ input' = Append(input, NewMessage)
    /\ UNCHANGED <<ctl, output, child, run, wr, rd, cs, gens, epoch, nemit, calls, hist>>

\* ------------------------------------------------------------- the child

\* the line a child prints: its number and its stream
Line(g, ch) == [g |-> g, ch |-> ch, n |-> nemit + 1]

\* the child prints one line on its stdout or stderr
ChildEmit(g, ch) ==
    /\ UNCHANGED ext
    /\ child[g].alive
    /\ Used < MaxEvents
    /\ nemit' = nemit + 1
    /\ child' = [child EXCEPT ![g].out = IF ch = "out" THEN Append(@, Line(g, ch)) ELSE @,
                              ![g].err = IF ch = "err" THEN Append(@, Line(g, ch)) ELSE @]
    /\ UNCHANGED <<ctl, queues, run, wr, rd, cs, gens, epoch, nwrites, calls, hist>>

\* the child exits on its own; own records that no stop / terminate / kill
\* had been called on it by then
ChildExit(g) ==
    /\ UNCHANGED ext
    /\ child[g].alive
    /\ child' = [child EXCEPT ![g].alive = FALSE, ![g].own = g \notin reqd]
    /\ UNCHANGED <<ctl, queues, run, wr, rd, cs, count, calls, hist>>

\* ------------------------------------------------------------- readers

Stream(g, ch) == IF ch = "out" THEN child[g].out ELSE child[g].err

\* line 175: Message.parse(line, datatype): the message carries the reader's
\* channel
Parse(line, datatype) == [g |-> line.g, src |-> line.ch, n |-> line.n,
                          channel |-> datatype]

\* a put at the head of the queue
PutFirst(q, m) == <<m>> \o q

\* line 175: self.output.put(message)
Put(q, m) == Append(q, m)

\* lines 173-178: one readline; a line is parsed and put on self.output,
\* b'' (the child has exited and the pipe is drained) ends the loop
Reader(g, ch) ==
    /\ UNCHANGED ext
    /\ rd[g][ch] = "run"
    /\ IF Stream(g, ch) # <<>>
       THEN /\ output' = Put(output, Parse(Head(Stream(g, ch)), ch))
            /\ child' = [child EXCEPT ![g].out = IF ch = "out" THEN Tail(@) ELSE @,
                                      ![g].err = IF ch = "err" THEN Tail(@) ELSE @]
            /\ UNCHANGED rd
       ELSE /\ ~child[g].alive
            /\ rd' = [rd EXCEPT ![g][ch] = "done"]
            /\ UNCHANGED <<output, child>>
    /\ UNCHANGED <<ctl, input, run, wr, cs, count, calls, hist>>

\* ------------------------------------------------------------- writer

\* lines 183-186: while self.is_alive(): self.input.get_nowait(); Empty is
\* swallowed and the loop sleeps and polls again
Writer183(g) ==
    /\ UNCHANGED ext
    /\ wr[g].pc = "w183"
    /\ IF ~is_alive
       THEN /\ wr' = [wr EXCEPT ![g].pc = "w189"]
            /\ UNCHANGED input
       ELSE /\ input # <<>>
            /\ wr' = [wr EXCEPT ![g] = [pc |-> "w185", msg |-> <<Head(input)>>]]
            /\ input' = Tail(input)
    /\ UNCHANGED <<ctl, output, child, run, rd, cs, count, calls, hist>>

\* a write to the stdin pipe of child c succeeds
StdinOpen(c) == c.alive /\ ~c.closed

\* the stdin of the child self.proc names when the writer evaluates it
WriterTarget(g) == proc

\* line 185, second half: .write(self.proc.stdin): one line and a flush;
\* a closed file or a broken pipe raises, which line 186 swallows
Writer185(g) ==
    /\ UNCHANGED ext
    /\ wr[g].pc = "w185"
    /\ child' = IF StdinOpen(child[WriterTarget(g)])
                THEN [child EXCEPT ![WriterTarget(g)].stdin = Append(@, wr[g].msg[1])]
                ELSE child
    /\ wr' = [wr EXCEPT ![g] = [pc |-> "w183", msg |-> <<>>]]
    /\ UNCHANGED <<ctl, queues, run, rd, cs, count, calls, hist>>

\* line 189: self.proc.stdin.close()
Writer189(g) ==
    /\ UNCHANGED ext
    /\ wr[g].pc = "w189"
    /\ child' = [child EXCEPT ![WriterTarget(g)].closed = TRUE]
    /\ wr' = [wr EXCEPT ![g].pc = "done"]
    /\ UNCHANGED <<ctl, queues, run, rd, cs, count, calls, hist>>

\* ------------------------------------------------------------- run

\* line 209: while self.running and self.proc.poll() is None
LoopCond == running /\ PollIsNone(proc)

\* getattr(self, 'on_msg_%s' % msg.name) finds a handler
HasHandler(k) == k = "ok"

\* process_messages loops until read() returns None (src/ipc.py line 192);
\* in the package it handles one message per call (src/ipc/ipc.py 183-192)
DrainsQueue == version = "module"

\* lines 193-201: read() one message and hand it to its handler; with no
\* handler getattr raises, which nothing in run() catches: the thread dies
Dispatch(g) ==
    /\ output' = Tail(output)
    /\ \E k \in Kinds :
       IF HasHandler(k)
       THEN /\ disp' = [disp EXCEPT ![Head(output).g][Head(output).channel] = Head(output).n]
            /\ run' = [run EXCEPT ![g].pc = IF DrainsQueue THEN "pm" ELSE "l209"]
       ELSE /\ run' = [run EXCEPT ![g].pc = "dead"]
            /\ UNCHANGED disp

\* lines 209-210: the loop condition, then the first read of
\* process_messages; with nothing queued the loop sleeps and polls again
Run209(g) ==
    /\ UNCHANGED ext
    /\ run[g].pc = "l209"
    /\ IF LoopCond
       THEN /\ output # <<>>
            /\ Dispatch(g)
       ELSE /\ run' = [run EXCEPT ![g].pc = "l213"]
            /\ UNCHANGED <<output, disp>>
    /\ UNCHANGED <<ctl, input, child, wr, rd, cs, count, calls, reqd, hooks>>

\* lines 192-201: the later reads of one process_messages call: it returns
\* (to the sleep of line 211) when the queue is empty
ProcessMessages(g) ==
    /\ UNCHANGED ext
    /\ run[g].pc = "pm"
    /\ IF output = <<>>
       THEN /\ run' = [run EXCEPT ![g].pc = "l209"]
            /\ UNCHANGED <<output, disp>>
       ELSE Dispatch(g)
    /\ UNCHANGED <<ctl, input, child, wr, rd, cs, count, calls, reqd, hooks>>

\* lines 213-216: if self.proc.poll() is None: self.proc.terminate();
\* term = self.running
Run213(g) ==
    /\ UNCHANGED ext
    /\ run[g].pc = "l213"
    /\ child' = [child EXCEPT ![proc] = SigTerm(@)]
    /\ run' = [run EXCEPT ![g] = [pc |-> "l218", term |-> running]]
    /\ UNCHANGED <<ctl, queues, wr, rd, cs, count, calls, hist>>

\* lines 218-219: out_thread.join(); err_thread.join()
Run218(g) ==
    /\ UNCHANGED ext
    /\ run[g].pc = "l218"
    /\ \A ch \in Channels : rd[g][ch] = "done"
    /\ run' = [run EXCEPT ![g].pc = "l221"]
    /\ UNCHANGED <<ctl, queues, child, wr, rd, cs, count, calls, hist>>

\* lines 221-222: self.running = False; self.thread = None
Run221(g) ==
    /\ UNCHANGED ext
    /\ run[g].pc = "l221"
    /\ running' = FALSE
    /\ thread' = None
    /\ run' = [run EXCEPT ![g].pc = "l224"]
    /\ UNCHANGED <<proc, queues, child, wr, rd, cs, count, calls, hist>>

\* the two hooks exchanged
TerminalHookSwapped(term) == IF term THEN "on_stopped" ELSE "on_terminated"

\* the hook lines 224-227 choose
TerminalHook(term) == IF term THEN "on_terminated" ELSE "on_stopped"

\* lines 224-227: on_terminated() or on_stopped(); the thread ends
Run224(g) ==
    /\ UNCHANGED ext
    /\ run[g].pc = "l224"
    /\ hooks' = [hooks EXCEPT ![g] = Append(@, TerminalHook(run[g].term))]
    /\ run' = [run EXCEPT ![g].pc = "done"]
    /\ UNCHANGED <<ctl, queues, child, wr, rd, cs, count, calls, reqd, disp>>

\* ------------------------------------------------------------- specification

Next ==
    \/ \E c \in Callers : Start118(c)
    \/ \E c \in Callers : Start124(c)
    \/ \E c \in Callers : Stop127(c)
    \/ \E c \in Callers : Stop130(c)
    \/ \E c \in Callers : StopJoin(c)
    \/ \E c \in Callers : Reset133(c)
    \/ \E c \in Callers : Reset136(c)
    \/ \E c \in Callers : Terminate141(c)
    \/ \E c \in Callers : Kill152(c)
    \/ \E c \in Callers : Sig158(c)
    \/ \E c \in Callers : Sig160(c)
    \/ \E c \in Callers : SigJoin(c)
    \/ \E c \in Callers : Write(c)
    \/ \E g \in Gens, ch \in Channels : ChildEmit(g, ch)
    \/ \E g \in Gens : ChildExit(g)
    \/ \E g \in Gens, ch \in Channels : Reader(g, ch)
    \/ \E g \in Gens : Writer183(g)
    \/ \E g \in Gens : Writer185(g)
    \/ \E g \in Gens : Writer189(g)
    \/ \E g \in Gens : Run209(g)
    \/ \E g \in Gens : ProcessMessages(g)
    \/ \E g \in Gens : Run213(g)
    \/ \E g \in Gens : Run218(g)
    \/ \E g \in Gens : Run221(g)
    \/ \E g \in Gens : Run224(g)

Spec == Init /\ [][Next]_vars

\* ------------------------------------------------------------- Message, specification

\* the names of keyword arguments
KeyNames == <<"x", "y", "z", "w">>
ArgKeys == {KeyNames[i] : i \in 1..MaxArgs}

\* the sequences over S of length at most n
SeqsUpTo(S, n) == UNION {[1..k -> S] : k \in 0..n}

\* the values kept in lists and tuples, and the argument values
ItemVals == {PyInt("1"), PyStr("a")}
ArgVals == {PyInt("1"), PyStr("a"), Scalar("bool", "true"), PyNone}
           \cup {Value(t, "", items, <<>>, <<>>) :
                    t \in {"list", "tuple"}, items \in SeqsUpTo(ItemVals, MaxItems)}

\* the keyword arguments of a call Message(name, **kwargs), in call order
ArgLists == {ks \in SeqsUpTo(ArgKeys, MaxArgs) :
                \A i, j \in 1..Len(ks) : i # j => ks[i] # ks[j]}
Kwargs == UNION {{[i \in 1..Len(ks) |-> Pair(ks[i], f[i])] : f \in [1..Len(ks) -> ArgVals]} :
                    ks \in ArgLists}

\* the Messages an application builds (line 169): channel is None
Messages == {Message(PyStr(n), "None", a) : n \in {"ping", "pong"}, a \in Kwargs}

\* the channels the readers pass to Message.parse (lines 205, 206, 261)
ParseChannels == {"out", "err", "in"}

\* lines of text that no Message.write produced
NotJsonLine == <<Token("raw", "not"), SP, Token("raw", "json"), NL>>
BlankLine == <<NL>>
NoNameLine == JsonEncode(PyDict(<<Pair("foo", PyInt("1"))>>)) \o <<NL>>
NoArgsLine == JsonEncode(PyDict(<<Pair("name", PyStr("ping"))>>)) \o <<NL>>
ArrayLine == JsonEncode(PyList(<<PyInt("1")>>)) \o <<NL>>
ArgsNotDictLine ==
    JsonEncode(PyDict(<<Pair("name", PyStr("ping")), Pair("args", PyInt("1"))>>)) \o <<NL>>
ArgsChannelLine ==
    JsonEncode(PyDict(<<Pair("name", PyStr("ping")),
                        Pair("args", PyDict(<<Pair("channel", PyStr("a"))>>))>>)) \o <<NL>>
TruncatedLine == <<Punct("{"), Token("str", "name"), Punct(":"), NL>>
RawLines == {<<>>, NotJsonLine, BlankLine, NoNameLine, NoArgsLine, ArrayLine,
             ArgsNotDictLine, ArgsChannelLine, TruncatedLine}

\* a Message to encode and decode, or a raw line to decode
MessageInit ==
    /\ mchan \in ParseChannels
    /\ mres = NoMessage
    /\ \/ /\ mobj \in Messages
          /\ mline = <<>>
          /\ mpc = "new"
       \/ /\ mobj = NoMessage
          /\ mline \in RawLines
          /\ mpc = "raw"

\* lines 81-82: Message.write puts the line on the stream
MessageWrite ==
    /\ mpc = "new"
    /\ mline' = MessageLine(mobj)
    /\ mpc' = "written"
    /\ UNCHANGED <<version, pvars, ivars, mobj, mchan, mres>>

\* lines 91-100: Message.parse of the line read from the stream
MessageRead ==
    /\ mpc \in {"written", "raw"}
    /\ mres' = MessageParse(mline, mchan)
    /\ mpc' = "parsed"
    /\ UNCHANGED <<version, pvars, ivars, mobj, mchan, mline>>

MsgInit ==
    /\ version = "module"
    /\ ProcessInit
    /\ MessageInit
    /\ InterfaceNew("none", "Process")

MsgNext ==
    \/ MessageWrite
    \/ MessageRead

SpecMsg == MsgInit /\ [][MsgNext]_vars

\* ------------------------------------------------------------- Interface

\* the events of the Interface's environment so far
IoUsed == io.fed + io.writes + io.faults

\* the lines the readers are fed: two written by Message.write, one that is
\* not JSON, one that is JSON without a name
PingLine == MessageLine(Message(PyStr("ping"), "None", <<Pair("x", PyInt("1"))>>))
PongLine == MessageLine(Message(PyStr("pong"), "None", <<>>))
IoLines == {PingLine, PongLine, NotJsonLine, NoNameLine}

\* the application's call returns (or raises) r
AppRet(r) == app' = [pc |-> "idle", log |-> Append(app.log, r)]

\* the application may make a call: the constructor's start() comes first
AppCalls == app.pc = "idle" /\ Len(app.log) <= MaxAppOps

\* line 276: if self.running
AlreadyRunning == irunning

\* lines 275-284: Interface.start, called by the constructor (line 253) and
\* by the application: raise, or set running and detach the three loops
IStart ==
    /\ io.program = "Interface"
    /\ app.pc = "new" \/ AppCalls
    /\ IF AlreadyRunning
       THEN /\ AppRet("AlreadyRunning")
            /\ UNCHANGED <<irunning, ithread, ird, iwr, io>>
       ELSE /\ io.starts < MaxStarts
            /\ io' = [io EXCEPT !.starts = @ + 1]
            /\ irunning' = TRUE
            /\ ithread' = [x \in Std |-> io'.starts]
            /\ ird' = [ird EXCEPT ![io'.starts].pc = "check"]
            /\ iwr' = [iwr EXCEPT ![io'.starts] = [s \in Streams |-> [pc |-> "check", msg |-> <<>>]]]
            /\ AppRet("ok")
    /\ UNCHANGED <<version, pvars, mvars, iqueue, on_stdin_error, sysio, prdr>>

\* lines 287-289: Interface.stop: a no-op when not running, else running is
\* cleared
IStop ==
    /\ AppCalls
    /\ IF ~irunning
       THEN /\ AppRet("ok")
            /\ UNCHANGED irunning
       ELSE /\ irunning' = FALSE
            /\ app' = [app EXCEPT !.pc = "j290"]
    /\ UNCHANGED <<version, pvars, mvars, iqueue, ithread, on_stdin_error, ird, iwr, sysio, prdr, io>>

\* a join that returns at once
FinishedAtOnce(k, s) == TRUE

\* Thread.join returns: the writer thread has ended
Finished(k, s) == iwr[k][s].pc \in {"done", "dead"}

\* line 290: self.stdout_thread.join()
IJoin290 ==
    /\ app.pc = "j290"
    /\ Finished(ithread["stdout"], "stdout")
    /\ app' = [app EXCEPT !.pc = "j291"]
    /\ UNCHANGED <<version, pvars, mvars, irunning, iqueue, ithread, on_stdin_error, ird, iwr, sysio, prdr, io>>

\* lines 291-292: self.stderr_thread.join(); sys.exit(), which raises
\* SystemExit in the application thread
IJoin291 ==
    /\ app.pc = "j291"
    /\ Finished(ithread["stderr"], "stderr")
    /\ AppRet("SystemExit")
    /\ io' = [io EXCEPT !.exits = @ + 1]
    /\ UNCHANGED <<version, pvars, mvars, irunning, iqueue, ithread, on_stdin_error, ird, iwr, sysio, prdr>>

\* lines 294-295: Interface.write puts the message on the stdout or the
\* stderr queue
IWrite(s) ==
    /\ app.pc = "idle"
    /\ IoUsed < MaxIO
    /\ io' = [io EXCEPT !.writes = @ + 1]
    /\ iqueue' = [iqueue EXCEPT ![s] = Append(@, [n |-> io'.writes])]
    /\ UNCHANGED <<version, pvars, mvars, irunning, ithread, on_stdin_error, ird, iwr, sysio, app, prdr>>

\* the parent writes a line to the peer's stdin, or closes it; only the
\* reader looks at a line, so its text is drawn when it is read, and the
\* stream is the number of its unread lines
IFeed ==
    /\ io.program = "Interface"
    /\ ~sysio.eof
    /\ IoUsed < MaxIO
    /\ io' = [io EXCEPT !.fed = @ + 1]
    /\ sysio' = [sysio EXCEPT !.stdin = @ + 1]
    /\ UNCHANGED <<version, pvars, mvars, irunning, iqueue, ithread, on_stdin_error, ird, iwr, app, prdr>>

IEof ==
    /\ io.program = "Interface"
    /\ ~sysio.eof
    /\ sysio' = [sysio EXCEPT !.eof = TRUE]
    /\ UNCHANGED <<version, pvars, mvars, irunning, iqueue, ithread, on_stdin_error, ird, iwr, app, prdr, io>>

\* line 256: while self.running
IReaderCheck(k) ==
    /\ ird[k].pc = "check"
    /\ ird' = [ird EXCEPT ![k].pc = IF irunning THEN "read" ELSE "done"]
    /\ UNCHANGED <<version, pvars, mvars, irunning, iqueue, ithread, on_stdin_error, iwr, sysio, app, prdr, io>>

\* a reader loop that ends at the first exception
AfterErrorReturn == "done"

\* lines 263-265: an exception in the loop body is passed to the callback,
\* if there is one; the loop goes on unless the callback itself raises
AfterError == IF on_stdin_error = "raises" THEN "dead" ELSE "check"

\* lines 258-265: one readline, blocking until there is a line or the end of
\* the stream; the line is parsed and the Message put on self.stdin
IReaderRead(k) ==
    /\ ird[k].pc = "read"
    /\ IF sysio.stdin > 0
       THEN /\ sysio' = [sysio EXCEPT !.stdin = @ - 1]
            /\ \E l \in IoLines :
               LET r == MessageParse(l, "in") IN
               IF r.tag = "Message"
               THEN /\ iqueue' = [iqueue EXCEPT !["stdin"] = Append(@, r)]
                    /\ ird' = [ird EXCEPT ![k] = [pc |-> "check", last |-> l]]
                    /\ UNCHANGED io
               ELSE /\ ird' = [ird EXCEPT ![k] = [pc |-> AfterError, last |-> l]]
                    /\ io' = [io EXCEPT !.errors = IF on_stdin_error = "none" THEN @ ELSE @ + 1]
                    /\ UNCHANGED iqueue
       ELSE /\ sysio.eof
            /\ ird' = [ird EXCEPT ![k].pc = "done"]
            /\ UNCHANGED <<sysio, iqueue, io>>
    /\ UNCHANGED <<version, pvars, mvars, irunning, ithread, on_stdin_error, iwr, app, prdr>>

\* line 268: while self.running
IWriterCheck(k, s) ==
    /\ iwr[k][s].pc = "check"
    /\ iwr' = [iwr EXCEPT ![k][s].pc = IF irunning THEN "get" ELSE "done"]
    /\ UNCHANGED <<version, pvars, mvars, irunning, iqueue, ithread, on_stdin_error, ird, sysio, app, prdr, io>>

\* lines 270, 272-273: q.get(timeout=0.1): a message, or Empty after the
\* timeout, which is passed over
IWriterGet(k, s) ==
    /\ iwr[k][s].pc = "get"
    /\ IF iqueue[s] # <<>>
       THEN /\ iwr' = [iwr EXCEPT ![k][s] = [pc |-> "write", msg |-> <<Head(iqueue[s])>>]]
            /\ iqueue' = [iqueue EXCEPT ![s] = Tail(@)]
       ELSE /\ iwr' = [iwr EXCEPT ![k][s].pc = "check"]
            /\ UNCHANGED iqueue
    /\ UNCHANGED <<version, pvars, mvars, irunning, ithread, on_stdin_error, ird, sysio, app, prdr, io>>

\* whether a write or flush on the stream may fail now
WriteOutcomes == IF IoUsed < MaxIO THEN {"ok", "IOError"} ELSE {"ok"}

\* lines 270-271: .write(stream); stream.flush(): an exception other than
\* Empty is not caught and ends the thread
IWriterWrite(k, s) ==
    /\ iwr[k][s].pc = "write"
    /\ \E o \in WriteOutcomes :
          IF o = "ok"
          THEN /\ sysio' = [sysio EXCEPT ![s] = Append(@, iwr[k][s].msg[1])]
               /\ iwr' = [iwr EXCEPT ![k][s] = [pc |-> "check", msg |-> <<>>]]
               /\ UNCHANGED io
          ELSE /\ iwr' = [iwr EXCEPT ![k][s] = [pc |-> "dead", msg |-> <<>>]]
               /\ io' = [io EXCEPT !.faults = @ + 1]
               /\ UNCHANGED sysio
    /\ UNCHANGED <<version, pvars, mvars, irunning, iqueue, ithread, on_stdin_error, ird, app, prdr>>

\* the child writes a line to its stdout, or exits
PFeed ==
    /\ io.program = "Process"
    /\ ~prdr.eof
    /\ IoUsed < MaxIO
    /\ io' = [io EXCEPT !.fed = @ + 1]
    /\ prdr' = [prdr EXCEPT !.stream = @ + 1]
    /\ UNCHANGED <<version, pvars, mvars, irunning, iqueue, ithread, on_stdin_error, ird, iwr, sysio, app>>

PEof ==
    /\ io.program = "Process"
    /\ ~prdr.eof
    /\ prdr' = [prdr EXCEPT !.eof = TRUE]
    /\ UNCHANGED <<version, pvars, mvars, irunning, iqueue, ithread, on_stdin_error, ird, iwr, sysio, app, io>>

\* src/ipc.py lines 173-178, Process._reader on lines of any kind: the
\* Message is put on self.output, an exception of parse or put is passed
\* over, b'' ends the loop
PReader ==
    /\ io.program = "Process"
    /\ prdr.pc = "run"
    /\ IF prdr.stream > 0
       THEN \E l \in IoLines :
            LET r == MessageParse(l, "out") IN
            prdr' = [prdr EXCEPT !.stream = @ - 1,
                                 !.last = l,
                                 !.output = IF r.tag = "Message" THEN Append(@, r) ELSE @]
       ELSE /\ prdr.eof
            /\ prdr' = [prdr EXCEPT !.pc = "done"]
    /\ UNCHANGED <<version, pvars, mvars, irunning, iqueue, ithread, on_stdin_error, ird, iwr, sysio, app, io>>

\* the on_stdin_error argument: none, a callback that returns, one that raises
Callbacks == {"none", "returns", "raises"}

IfaceInit ==
    /\ version = "module"
    /\ ProcessInit
    /\ MessageIdle
    /\ \/ \E cb \in Callbacks : InterfaceNew(cb, "Interface")
       \/ InterfaceNew("none", "Process")

IfaceNext ==
    \/ IStart
    \/ IStop
    \/ IJoin290
    \/ IJoin291
    \/ \E s \in Streams : IWrite(s)
    \/ IFeed
    \/ IEof
    \/ \E k \in Starts : IReaderCheck(k)
    \/ \E k \in Starts : IReaderRead(k)
    \/ \E k \in Starts, s \in Streams : IWriterCheck(k, s)
    \/ \E k \in Starts, s \in Streams : IWriterGet(k, s)
    \/ \E k \in Starts, s \in Streams : IWriterWrite(k, s)
    \/ PFeed
    \/ PEof
    \/ PReader

SpecIface == IfaceInit /\ [][IfaceNext]_vars

\* ------------------------------------------------------------- claims

\* the Process attributes a caller can observe, and the children
Observable == <<proc, running, thread, input, output, gens, child>>

\* no supervising loop is executing and none has died of an exception
NoLoop == \A g \in Gens : run[g].pc \in {"none", "done"}

\* C1: start() on a Controller whose thread attribute holds a supervising
\* thread raises 'Already started' at once and changes nothing: no child is
\* spawned, proc, running, thread and both queues keep their values.
C1_StartTwiceRaises ==
    [][\A c \in Callers :
         (Start118(c) /\ thread # None) =>
            /\ cs'[c].pc = "idle"
            /\ cs'[c].res = "AlreadyStarted"
            /\ UNCHANGED Observable]_vars

\* a second start() has raised while the first generation's loop exists
C1_Witness ==
    /\ cs["main"].res = "AlreadyStarted"
    /\ calls["main"] = 2
    /\ gens = 1
    /\ thread = 1

\* C2: start() succeeds whenever no supervising loop is executing: once
\* every earlier loop has finished, start() does not raise 'Already started'.
C2_StartSucceedsWhenNoLoop ==
    [][\A c \in Callers :
         (Start118(c) /\ NoLoop) =>
            /\ cs'[c].res # "AlreadyStarted"
            /\ gens' = gens + 1
            /\ running'
            /\ run'[gens'].pc = "l209"]_vars

\* C3: reset() returns without error, and on return the child is one this
\* reset spawned, a supervising loop was launched for it, and neither queue
\* holds a message queued before the reset.
C3_ResetAlwaysRestarts ==
    [][\A c \in Callers :
         (cs[c].op = "reset" /\ cs'[c].pc = "idle") =>
            /\ cs'[c].res = "ok"
            /\ proc' # None
            /\ child'[proc'].ep = epoch'
            /\ thread' = proc'
            /\ \A i \in 1..Len(input') : input'[i].ep = epoch'
            /\ \A i \in 1..Len(output') : output'[i].g = proc']_vars

\* the messages a sequence holds
Range(q) == {q[i] : i \in 1..Len(q)}

\* C4: no message of an earlier generation reaches the next one: a child's
\* stdin receives no message that was passed to write() before the reset
\* that spawned the child, and once that child is spawned the output queue
\* holds no message of an older child.
C4_NoStaleMessages ==
    /\ \A g \in Gens : \A m \in Range(child[g].stdin) : m.ep >= child[g].ep
    /\ \A m \in Range(output) :
         (proc # None /\ child[proc].ep = epoch) => child[m.g].ep = epoch

\* C5: a supervising loop that ends invokes exactly one terminal hook, once:
\* on_terminated if and only if the child exited on its own with no stop(),
\* terminate() or kill() called on it, on_stopped otherwise.
C5_HookMatchesRequest ==
    \A g \in Gens :
       /\ Len(hooks[g]) <= 1
       /\ run[g].pc = "done" => Len(hooks[g]) = 1
       /\ hooks[g] # <<>> => (hooks[g][1] = "on_terminated" <=> child[g].own)

\* terminate() was sent to child g, which ignored it, and a later kill()
\* killed it
TerminateThenKill(g) == child[g].ign /\ child[g].termed /\ child[g].sig = "KILL"

\* C6 as stated: after terminate() on a child that ignores SIGTERM and then
\* kill(), the supervising loop ends having invoked on_terminated exactly once.
C6_KillInvokesOnTerminated ==
    \A g \in Gens :
       (TerminateThenKill(g) /\ run[g].pc = "done") => hooks[g] = <<"on_terminated">>

\* C6 as amended: after terminate() on a child that ignores SIGTERM and then
\* kill(), the supervising loop never invokes on_terminated, and when it
\* ends it has invoked on_stopped exactly once.
C6_KillInvokesOnStopped ==
    \A g \in Gens :
       TerminateThenKill(g) =>
          /\ "on_terminated" \notin Range(hooks[g])
          /\ Len(hooks[g]) <= 1
          /\ run[g].pc = "done" => hooks[g] = <<"on_stopped">>

\* the second thread's kill() ended a child that ignored terminate(), and
\* the loop has ended with its hook
C6_Witness ==
    \E g \in Gens :
       /\ TerminateThenKill(g)
       /\ calls["aux"] = 1
       /\ run[g].pc = "done"
       /\ hooks[g] = <<"on_stopped">>

\* the thread attribute names a loop thread that has finished (start()
\* assigned it after the loop had cleared the attribute)
StaleThread == thread # None /\ run[thread].pc = "done"

\* caller c takes a step of a stop() it called itself
StopStep(c) ==
    \/ Stop127(c) /\ cs[c].pc = "idle"
    \/ cs[c].op = "stop" /\ (Stop130(c) \/ StopJoin(c))

\* caller c calls terminate() or kill() itself
SignalCall(c) == Terminate141(c) \/ (Kill152(c) /\ cs[c].pc = "idle")

\* what a no-op leaves alone: the attributes, the queues, the children
\* (so no signal is sent) and the hooks and handlers called
Untouched == UNCHANGED <<Observable, hooks, disp>>

\* C7: stop() with no supervising loop (thread is None, or names a loop that
\* has finished), and terminate() / kill() with no live child, return
\* normally and change nothing: no signal, no hook, proc, running, thread
\* and queues as before.
C7_IdleOpsChangeNothing ==
    [][\A c \in Callers :
         /\ (Stop127(c) /\ cs[c].pc = "idle" /\ thread = None) =>
               /\ Untouched
               /\ cs'[c].pc = "idle"
               /\ cs'[c].res = "ok"
         /\ (StopStep(c) /\ StaleThread) =>
               /\ Untouched
               /\ cs'[c].pc = "idle" => cs'[c].res = "ok"
         /\ (SignalCall(c) /\ ~(proc # None /\ child[proc].alive)) =>
               /\ Untouched
               /\ cs'[c].pc = "idle"
               /\ cs'[c].res = "ok"]_vars

\* terminate() or kill() was called after the child had exited on its own
\* and has returned, with the loop still there and running still set
C7_Witness ==
    /\ calls["main"] = 2
    /\ cs["main"].pc = "idle"
    /\ cs["main"].res = "ok"
    /\ gens = 1
    /\ ~child[1].alive
    /\ child[1].sig = "none"
    /\ reqd = {1}
    /\ running
    /\ thread = 1

\* no supervising loop has died of an exception
NoLoopDied == \A g \in Gens : run[g].pc # "dead"

\* C8: with a child that exits on SIGTERM, a stop() that found a supervising
\* thread returns (it does not raise), and on return running is false,
\* thread is None and the child is not alive.
C8_StopReturnsStopped ==
    [][\A c \in Callers :
         (cs[c].op = "stop" /\ cs'[c].pc = "idle" /\ ~child[proc].ign /\ NoLoopDied) =>
            /\ cs'[c].res = "ok"
            /\ ~running'
            /\ thread' = None
            /\ ~child'[proc'].alive]_vars

\* C9: every child's stdin receives the messages in the order of the
\* write() calls, each at most once.
C9_WritesInOrder ==
    \A g \in Gens : \A i, j \in 1..Len(child[g].stdin) :
       i < j => child[g].stdin[i].n < child[g].stdin[j].n

\* C10: the handlers of one channel of one child are called in the order in
\* which the child printed the lines on that stream, and every message
\* carries the channel of the stream it was read from.
C10_PerChannelOrder ==
    [][\A g \in Gens, ch \in Channels :
         disp'[g][ch] # disp[g][ch] =>
            /\ Head(output).g = g
            /\ Head(output).src = ch
            /\ disp'[g][ch] > disp[g][ch]]_vars

\* a later line of stderr has been dispatched while an earlier line of
\* stdout still waits in the queue: no order between the channels
C10_Witness ==
    \E g \in Gens : \E m \in Range(output) :
       /\ m.g = g
       /\ m.channel = "out"
       /\ disp[g]["err"] > m.n

\* a step of run(g) that reads a message whose name has no handler
UnknownDispatch(g) ==
    /\ run[g].pc \in {"l209", "pm"}
    /\ output # <<>>
    /\ output' = Tail(output)
    /\ run' # run
    /\ disp' = disp

\* C15: a message without an on_msg_<name> handler ends the message
\* processing of that polling cycle only: the supervising loop goes on to
\* its next cycle (and so still dispatches what is queued behind, and ends
\* in the regular way).
C15_UnknownMessageEndsCycleOnly ==
    [][\A g \in Gens : UnknownDispatch(g) => run'[g].pc = "l209"]_vars

\* a pump task (writer or reader) of generation g is still executing
PumpLive(g) ==
    \/ wr[g].pc \notin {"none", "done"}
    \/ \E ch \in Channels : rd[g][ch] = "run"

\* C17: when stop(), terminate() or kill() returns from its join on the
\* supervising loop, the writer and both readers of that generation have
\* finished; and when reset() replaces the queues no pump task of any
\* generation is executing.
C17_PumpsJoined ==
    [][\A c \in Callers :
         /\ ((StopJoin(c) \/ SigJoin(c)) /\ NoLoopDied) => ~PumpLive(cs[c].jt)
         /\ (Reset136(c) /\ NoLoopDied) => \A g \in Gens : ~PumpLive(g)]_vars

\* C18: stop(), terminate() and kill() never raise to their caller.
C18_LifecycleNeverRaises ==
    \A c \in Callers : cs[c].res # "AttributeError"

\* C19: when run(g) invokes its terminal hook both readers of g have
\* finished, running is false, thread is None and the child has exited or
\* terminate() was sent to it; and once the hook has been invoked no handler
\* is called for a message of generation g.
C19_HookPostconditions ==
    [][\A g \in Gens :
         /\ Run224(g) =>
               /\ \A ch \in Channels : rd[g][ch] = "done"
               /\ ~running
               /\ thread = None
               /\ ~child[g].alive \/ child[g].termed
         /\ hooks[g] # <<>> => disp'[g] = disp[g]]_vars

\* C20: a polling cycle ends (process_messages returns to the sleep of the
\* loop) only with the inbound queue observed empty: everything queued when
\* the cycle began has been dispatched before the sleep and the next check
\* of the exit status.
C20_CycleDrainsQueue ==
    [][\A g \in Gens :
         ((Run209(g) \/ ProcessMessages(g)) /\ run'[g].pc = "l209") =>
            output' = <<>>]_vars

\* a Message has been encoded and the line decoded
RoundTripDone == mpc = "parsed" /\ mobj.tag = "Message"

\* C11 as stated: for every Message with JSON-serializable arguments and
\* every channel, parsing the line written for it yields an equal Message
\* (equality by name and args).
C11_RoundTrip ==
    RoundTripDone => mres.tag = "Message" /\ MessageEq(mres, mobj)

\* no argument of m is a tuple
NoTuples(m) == \A i \in 1..Len(m.args) : m.args[i].val.t # "tuple"

\* C11 as amended: for every Message whose arguments are strings, integers,
\* booleans, None or lists of these (no tuples) and every channel, parsing
\* the line written for it yields a Message with that channel which is equal
\* to the original by name and args.
C11_RoundTripJsonValues ==
    (RoundTripDone /\ NoTuples(mobj)) =>
        /\ mres.tag = "Message"
        /\ mres.channel = mchan
        /\ MessageEq(mres, mobj)

\* a Message with a non-empty list and a second argument has made the round
\* trip and came back equal, with another channel
C11_Witness ==
    /\ RoundTripDone
    /\ Len(mobj.args) = MaxArgs
    /\ mobj.args[1].val = PyList(<<PyStr("a")>>)
    /\ mres.tag = "Message"
    /\ MessageEq(mres, mobj)
    /\ mres.channel # mobj.channel

\* a line without its final newline
Chomp(text) ==
    IF text # <<>> /\ text[Len(text)] = NL THEN SubSeq(text, 1, Len(text) - 1) ELSE text

\* C12: parsing the line "not json\n" yields a Message named jsonerr whose
\* args.msg is "not json", and parsing the empty string yields no Message:
\* the failure is raised to the caller.
C12_MalformedInput ==
    mpc = "parsed" =>
        /\ mline = NotJsonLine =>
              mres = Message(PyStr("jsonerr"), mchan, <<Pair("msg", PyText(Chomp(NotJsonLine)))>>)
        /\ mline = <<>> => mres.tag = "raised"

\* what a reader loop must put on its queue for a line it read: the
\* Message the line was written for, a jsonerr Message for a line that is
\* not JSON, nothing for JSON without a name
Expected(l, channel) ==
    IF l = PingLine THEN <<Message(PyStr("ping"), channel, <<Pair("x", PyInt("1"))>>)>>
    ELSE IF l = PongLine THEN <<Message(PyStr("pong"), channel, <<>>)>>
    ELSE IF l = NotJsonLine THEN <<Message(PyStr("jsonerr"), channel, <<Pair("msg", PyText(l))>>)>>
    ELSE <<>>

\* C13: no line ends a reader loop before the end of the stream: whatever
\* line Process._reader or Interface.reader (with no error callback, or one
\* that returns) reads, the loop goes on to the next line, having put the
\* line's Message at the tail of its queue (a jsonerr Message for a line
\* that is not JSON, nothing for JSON without a name); the loops end only at
\* the end of the stream or, for the Interface, when running is cleared.
C13_ReadersSurviveBadLines ==
    [][/\ \A k \in Starts :
            (IReaderRead(k) /\ on_stdin_error # "raises") =>
               IF sysio'.stdin < sysio.stdin
               THEN /\ ird'[k].pc = "check"
                    /\ iqueue'["stdin"] = iqueue["stdin"] \o Expected(ird'[k].last, "in")
               ELSE sysio.eof /\ ird'[k].pc = "done"
       /\ \A k \in Starts :
            (ird[k].pc # "none" /\ ird'[k].pc \in {"done", "dead"} /\ on_stdin_error # "raises") =>
               \/ ird'[k].pc = ird[k].pc
               \/ ird'[k].pc = "done" /\ ((sysio.eof /\ sysio.stdin = 0) \/ ~irunning)
       /\ PReader =>
            IF prdr'.stream < prdr.stream
            THEN /\ prdr'.pc = "run"
                 /\ prdr'.output = prdr.output \o Expected(prdr'.last, "out")
            ELSE prdr.eof /\ prdr'.pc = "done"]_vars

\* the Interface's reader, with a callback, has read JSON without a name
\* and then a line that is not JSON and a well-formed one, and is still
\* reading
C13_Witness ==
    /\ on_stdin_error = "returns"
    /\ io.errors = 1
    /\ iqueue["stdin"] = Expected(NotJsonLine, "in") \o Expected(PingLine, "in")
    /\ ird[1].last = PingLine
    /\ ird[1].pc = "read"

\* C14: a write or flush that fails does not end a writer loop: after every
\* attempt to write a message the loop is at its next cycle.
C14_WritersSurviveFailures ==
    [][\A k \in Starts, s \in Streams :
          IWriterWrite(k, s) => iwr'[k][s].pc = "check"]_vars

\* C16: the constructor's start() leaves the Interface running with one
\* reader loop and one writer loop for each of stdout and stderr; start()
\* while running raises and launches nothing; stop() while running clears
\* running and reaches sys.exit() only when both writer loops have ended;
\* stop() when not running changes nothing.
C16_InterfaceLifecycle ==
    [][/\ (IStart /\ app.pc = "new") =>
             /\ irunning'
             /\ ird'[1].pc = "check"
             /\ \A s \in Streams : iwr'[1][s].pc = "check"
             /\ \A k \in Starts \ {1} :
                   ird'[k].pc = "none" /\ \A s \in Streams : iwr'[k][s].pc = "none"
             /\ ithread' = [x \in Std |-> 1]
       /\ (IStart /\ irunning) =>
             /\ app'.log = Append(app.log, "AlreadyRunning")
             /\ UNCHANGED <<irunning, iqueue, ithread, ird, iwr, io>>
       /\ (IStop /\ irunning) => ~irunning' /\ app'.pc # "idle"
       /\ (io'.exits # io.exits) =>
             /\ app.pc = "j291"
             /\ ~irunning
             /\ \A s \in Streams : iwr[ithread[s]][s].pc \in {"done", "dead"}
       /\ (IStop /\ ~irunning) =>
             /\ app'.log = Append(app.log, "ok")
             /\ UNCHANGED <<irunning, iqueue, ithread, ird, iwr, io, sysio>>]_vars

\* after construction a start() has raised, a stop() has ended in
\* sys.exit() and a second stop() has returned at once
C16_Witness ==
    /\ app.log = <<"ok", "AlreadyRunning", "SystemExit", "ok">>
    /\ ~irunning
    /\ io.exits = 1

\* C21: a writer loop writes to and closes only the stdin of the child it
\* was launched for: no step of the writer of generation g changes the
\* stdin of another child.
C21_WriterKeepsToItsChild ==
    [][\A g \in Gens :
          (Writer185(g) \/ Writer189(g)) =>
             \A h \in Gens \ {g} :
                /\ child'[h].stdin = child[h].stdin
                /\ child'[h].closed = child[h].closed]_vars

\* C22: when the supervising loop of a child that exited on its own invokes
\* its terminal hook, every line the child printed has been dispatched:
\* none is unread on its streams and no message of it waits in the inbound
\* queue.
C22_DispatchedBeforeHook ==
    [][\A g \in Gens :
          (Run224(g) /\ child[g].own) =>
             /\ \A ch \in Channels : Stream(g, ch) = <<>>
             /\ \A m \in Range(output) : m.g # g]_vars

\* C23: when stop() reaches sys.exit(), and no write to a stream has failed,
\* both outbound queues are empty: every message passed to write() before
\* the stop() has been written to its stream.
C23_StopFlushesQueues ==
    [][(io'.exits # io.exits /\ io.faults = 0) =>
          \A s \in Streams :
             /\ iqueue[s] = <<>>
             /\ \A n \in 1..io.writes :
                   \E x \in Streams : [n |-> n] \in Range(sysio[x])]_vars

=============================================================================
